---------------------------- MODULE Spec2Model ----------------------------
(*************************************************************************)
(* Incremental PCA over an ERA5 file manifest (src/utils/ipca_era5.py).  *)
(* The model follows one run of main(): fit_ipca_partial, then           *)
(* transform_ipca_partial, then the write of the projection file.  A     *)
(* raster is identified by the 0-based position of its file in the       *)
(* manifest; a batch and a projection matrix are sequences of such       *)
(* positions, so that dropping, duplicating or reordering a row shows.   *)
(*************************************************************************)
EXTENDS Integers, Sequences, FiniteSets, TLC

\* ---------------------------------------------------------------- bounds
MaxSample == 7
MaxComponent == 3
MaxBatchSize == 3
MaxNegative == 1
MaxSeed == 1

VARIABLES
    args,         \* the parsed command line: n_component, batch_size, random_seed
    nSample,      \* len(finfo): number of manifest entries
    pc,           \* position of the run
    error,        \* the exception that ended the run, "none" while it runs
    ipca,         \* the IncrementalPCA object
    n_component,  \* local of the running pass
    batch_start,  \* local of the running pass
    batch_end,    \* local of the running pass
    batch_count,  \* local of the running pass
    proj_full,    \* local of transform_ipca_partial
    written,      \* the projection file <output>.proj.csv
    fitRanges,    \* history: [batch_start, limit) of every fit iteration
    transRanges,  \* history: [batch_start, limit) of every transform iteration
    readLog,      \* history: every read_multiple_era5 call
    updates,      \* history: every batch handed to ipca.partial_fit
    projects      \* history: every batch handed to model.transform

vars == <<args, nSample, pc, error, ipca, n_component, batch_start, batch_end,
          batch_count, proj_full, written, fitRanges, transRanges, readLog,
          updates, projects>>

\* --------------------------------------------------------------- helpers
Min(a, b) == IF a < b THEN a ELSE b

Max(a, b) == IF a > b THEN a ELSE b

\* Python's normalisation of one bound of a slice over a sequence of length n.
SliceIndex(i, n) == IF i < 0 THEN Max(i + n, 0) ELSE Min(i, n)

\* finfo['xuri'].iloc[start:stop]: the manifest positions the slice selects.
Slice(start, stop, n) ==
    LET lo == SliceIndex(start, n)
        hi == SliceIndex(stop, n)
    IN  [k \in 1..(IF hi > lo THEN hi - lo ELSE 0) |-> lo + k - 1]

\* The bound check of the loop body: the candidate end clipped to nSample,
\* replaced by nSample when fewer than n_component samples would remain.
LimitNoMerge(bend, n, nc) == Min(bend, n)

Limit(bend, n, nc) == IF nc > (n - bend) THEN n ELSE Min(bend, n)

\* The increment of the loop body.
AdvanceSkipOne(limit, bs) == [batch_start |-> limit + 1, batch_end |-> limit + 1 + bs]

AdvanceUnitStride(limit, bs) == [batch_start |-> limit, batch_end |-> limit + 1]

Advance(limit, bs) == [batch_start |-> limit, batch_end |-> limit + bs]

\* read_multiple_era5 on the selected files: an empty list reads nothing and
\* returns; otherwise any file may turn out unreadable.
ReadOutcomes(rows) == IF Len(rows) = 0 THEN {TRUE} ELSE {TRUE, FALSE}

\* IncrementalPCA(n_components=..., whiten=True, batch_size=...): the
\* constructor stores its arguments; the fitted attributes do not exist yet.
NewIPCA(nc, bs) ==
    [n_components |-> nc, batch_size |-> bs, fitted |-> FALSE,
     n_components_ |-> 0, n_samples_seen_ |-> 0]

\* Whether ipca.partial_fit(data) returns (TRUE) or raises (FALSE).  It
\* raises on an empty batch, on n_components < 1 and on n_components larger
\* than the number of rows of the batch; a batch_size < 1 is rejected or not
\* depending on the release of the library.
PartialFitOutcomes(rows, model) ==
    IF Len(rows) = 0 \/ model.n_components < 1 \/ model.n_components > Len(rows)
    THEN {FALSE}
    ELSE IF model.batch_size < 1 THEN {TRUE, FALSE} ELSE {TRUE}

\* The state of the model after a partial_fit that returned.
PartialFit(model, rows) ==
    [model EXCEPT !.fitted = TRUE,
                  !.n_components_ = model.n_components,
                  !.n_samples_seen_ = @ + Len(rows)]

\* model.transform(data): one output row per input row, in input order.
Transform(model, rows) == rows

\* np.vstack([proj_full, proj_batch])
VstackReversed(full, batch) == batch \o full

Vstack(full, batch) == full \o batch

\* An exception nobody catches: it ends the run.
RaiseSwallowed(err) == pc' = pc /\ error' = err

Raise(err) == pc' = "failed" /\ error' = err

\* The ranges the batch loop walks when every call in its body returns.
RECURSIVE PlanFrom(_, _, _, _, _)
PlanFrom(bstart, bend, n, bs, nc) ==
    IF bstart < n
    THEN LET limit == Limit(bend, n, nc)
             adv == Advance(limit, bs)
         IN  <<<<bstart, limit>>>> \o PlanFrom(adv.batch_start, adv.batch_end, n, bs, nc)
    ELSE <<>>

Plan(n, bs, nc) == PlanFrom(0, bs, n, bs, nc)

\* ------------------------------------------------------------------ Init
Init ==
    /\ args \in [n_component : (0 - MaxNegative)..MaxComponent,
                 batch_size : (0 - MaxNegative)..MaxBatchSize,
                 random_seed : 0..MaxSeed]
    /\ nSample \in 0..MaxSample
    /\ pc = "start"
    /\ error = "none"
    /\ ipca = NewIPCA(0, 0)
    /\ n_component = 0
    /\ batch_start = 0
    /\ batch_end = 0
    /\ batch_count = 0
    /\ proj_full = [none |-> TRUE, rows |-> <<>>]
    /\ written = [set |-> FALSE, rows |-> <<>>]
    /\ fitRanges = <<>>
    /\ transRanges = <<>>
    /\ readLog = <<>>
    /\ updates = <<>>
    /\ projects = <<>>

\* --------------------------------------------------------------- actions
\* fit_ipca_partial up to its loop: the shuffle branch reads the local
\* flist before anything assigned it.
FitEnter ==
    /\ pc = "start"
    /\ IF args.random_seed # 0
       THEN /\ Raise("UnboundLocalError")
            /\ UNCHANGED <<ipca, n_component, batch_start, batch_end, batch_count>>
       ELSE /\ ipca' = NewIPCA(args.n_component, args.batch_size)
            /\ n_component' = args.n_component
            /\ batch_start' = 0
            /\ batch_end' = args.batch_size
            /\ batch_count' = 0
            /\ pc' = "fit_loop"
            /\ UNCHANGED error
    /\ UNCHANGED <<args, nSample, proj_full, written, fitRanges, transRanges,
                   readLog, updates, projects>>

\* One iteration of the loop of fit_ipca_partial.
FitBatch ==
    /\ pc = "fit_loop"
    /\ batch_start < nSample
    /\ LET limit == Limit(batch_end, nSample, n_component)
           rows == Slice(batch_start, limit, nSample)
           adv == Advance(limit, args.batch_size)
       IN  \E readOk \in ReadOutcomes(rows) :
             /\ fitRanges' = Append(fitRanges, <<batch_start, limit>>)
             /\ readLog' = Append(readLog, [pass |-> "fit", rows |-> rows, ok |-> readOk])
             /\ IF ~readOk
                THEN /\ Raise("OSError")
                     /\ UNCHANGED <<batch_start, batch_end, batch_count, updates, ipca>>
                ELSE /\ batch_start' = adv.batch_start
                     /\ batch_end' = adv.batch_end
                     /\ batch_count' = batch_count + 1
                     /\ updates' = Append(updates, rows)
                     /\ \E fitOk \in PartialFitOutcomes(rows, ipca) :
                          IF fitOk
                          THEN ipca' = PartialFit(ipca, rows) /\ UNCHANGED <<pc, error>>
                          ELSE Raise("ValueError") /\ UNCHANGED ipca
    /\ UNCHANGED <<args, nSample, n_component, proj_full, written, transRanges, projects>>

\* The loop condition fails: fit_ipca_partial returns the model.
FitReturn ==
    /\ pc = "fit_loop"
    /\ ~(batch_start < nSample)
    /\ pc' = "fit_done"
    /\ UNCHANGED <<args, nSample, error, ipca, n_component, batch_start, batch_end,
                   batch_count, proj_full, written, fitRanges, transRanges,
                   readLog, updates, projects>>

\* transform_ipca_partial up to its loop: model.n_components_ exists only
\* once a partial_fit has returned.
TransformEnterNoMerge ==
    /\ pc = "fit_done"
    /\ n_component' = 0
    /\ batch_start' = 0
    /\ batch_end' = args.batch_size
    /\ batch_count' = 0
    /\ proj_full' = [none |-> TRUE, rows |-> <<>>]
    /\ pc' = "transform_loop"
    /\ UNCHANGED <<args, nSample, error, ipca, written, fitRanges, transRanges,
                   readLog, updates, projects>>

TransformEnter ==
    /\ pc = "fit_done"
    /\ IF ~ipca.fitted
       THEN /\ Raise("AttributeError")
            /\ UNCHANGED <<n_component, batch_start, batch_end, batch_count, proj_full>>
       ELSE /\ n_component' = ipca.n_components_
            /\ batch_start' = 0
            /\ batch_end' = args.batch_size
            /\ batch_count' = 0
            /\ proj_full' = [none |-> TRUE, rows |-> <<>>]
            /\ pc' = "transform_loop"
            /\ UNCHANGED error
    /\ UNCHANGED <<args, nSample, ipca, written, fitRanges, transRanges,
                   readLog, updates, projects>>

\* One iteration of the loop of transform_ipca_partial.
TransformBatch ==
    /\ pc = "transform_loop"
    /\ batch_start < nSample
    /\ LET limit == Limit(batch_end, nSample, n_component)
           rows == Slice(batch_start, limit, nSample)
           adv == Advance(limit, args.batch_size)
       IN  \E readOk \in ReadOutcomes(rows) :
             /\ transRanges' = Append(transRanges, <<batch_start, limit>>)
             /\ readLog' = Append(readLog, [pass |-> "transform", rows |-> rows, ok |-> readOk])
             /\ IF ~readOk
                THEN /\ Raise("OSError")
                     /\ UNCHANGED <<batch_start, batch_end, batch_count, projects, proj_full>>
                ELSE /\ batch_start' = adv.batch_start
                     /\ batch_end' = adv.batch_end
                     /\ batch_count' = batch_count + 1
                     /\ projects' = Append(projects, rows)
                     /\ IF Len(rows) = 0
                        THEN Raise("ValueError") /\ UNCHANGED proj_full
                        ELSE /\ proj_full' =
                                  IF proj_full.none
                                  THEN [none |-> FALSE, rows |-> Transform(ipca, rows)]
                                  ELSE [none |-> FALSE,
                                        rows |-> Vstack(proj_full.rows, Transform(ipca, rows))]
                             /\ UNCHANGED <<pc, error>>
    /\ UNCHANGED <<args, nSample, ipca, n_component, written, fitRanges, updates>>

\* The loop condition fails: transform_ipca_partial returns proj_full.
TransformReturn ==
    /\ pc = "transform_loop"
    /\ ~(batch_start < nSample)
    /\ pc' = "transformed"
    /\ UNCHANGED <<args, nSample, error, ipca, n_component, batch_start, batch_end,
                   batch_count, proj_full, written, fitRanges, transRanges,
                   readLog, updates, projects>>

\* main: the projections become a frame, the timestamp column of the
\* manifest is inserted by row label, and the frame is written.
WriteProjection ==
    /\ pc = "transformed"
    /\ written' = [set |-> TRUE,
                   rows |-> [i \in 1..Len(proj_full.rows) |->
                               [timestamp |-> IF i <= nSample THEN i - 1 ELSE -1,
                                proj |-> proj_full.rows[i]]]]
    /\ pc' = "done"
    /\ UNCHANGED <<args, nSample, error, ipca, n_component, batch_start, batch_end,
                   batch_count, proj_full, fitRanges, transRanges, readLog,
                   updates, projects>>

Next ==
    \/ FitEnter
    \/ FitBatch
    \/ FitReturn
    \/ TransformEnter
    \/ TransformBatch
    \/ TransformReturn
    \/ WriteProjection

Spec == Init /\ [][Next]_vars

\* The program is sequential and runs on: a step that can be taken is taken.
FairSpec == Spec /\ WF_vars(Next)


\* ---------------------------------------------------------------- claims
ValidConfig == args.n_component >= 1 /\ args.batch_size >= 1

InvalidConfig == args.n_component <= 0 \/ args.batch_size <= 0

Terminated == pc \in {"done", "failed"}

RangeLen(r) == r[2] - r[1]

\* ceil(n / bs) for bs >= 1
CeilDiv(n, bs) == (n + bs - 1) \div bs

\* first range starts at 0, each starts where the previous ended, none empty
RangesContiguous(rs) ==
    /\ Len(rs) > 0 => rs[1][1] = 0
    /\ \A i \in 1..Len(rs) :
         /\ rs[i][1] < rs[i][2]
         /\ i > 1 => rs[i][1] = rs[i - 1][2]

\* the ranges end at n (and there is none when n = 0)
RangesCover(rs, n) ==
    IF n = 0 THEN rs = <<>> ELSE Len(rs) > 0 /\ rs[Len(rs)][2] = n

\* a candidate that would leave fewer than nc samples is extended to n and
\* is the last range; the last range is shorter than nc only when it is the
\* sole range of a manifest smaller than nc
MergedTail(rs, n, bs, nc) ==
    /\ \A i \in 1..Len(rs) :
         (n - (rs[i][1] + bs) < nc) => (rs[i][2] = n /\ i = Len(rs))
    /\ (Len(rs) > 0 /\ rs[Len(rs)][2] = n) =>
         \/ RangeLen(rs[Len(rs)]) >= nc
         \/ (Len(rs) = 1 /\ n < nc)

\* every range has at least nc entries, the sole range of a manifest
\* smaller than nc excepted
MinLength(rs, n, nc) ==
    \A i \in 1..Len(rs) : RangeLen(rs[i]) >= nc \/ (Len(rs) = 1 /\ n < nc)

IsPrefix(s, t) == Len(s) <= Len(t) /\ \A i \in 1..Len(s) : s[i] = t[i]

\* concatenation of a sequence of sequences
RECURSIVE Flatten(_)
Flatten(ss) == IF ss = <<>> THEN <<>> ELSE Head(ss) \o Flatten(Tail(ss))

\* C1: with batch_size >= 1 and n_component >= 1 the ranges walked by the
\* fit loop and by the transform loop start at 0, are non-empty, each starts
\* where the previous one ended, and when the loop exits the last one ends
\* at nSample; the same holds of the whole plan for every such input.
C1_RangesPartition ==
    ValidConfig =>
        /\ RangesContiguous(fitRanges)
        /\ RangesContiguous(transRanges)
        /\ pc = "fit_done" => RangesCover(fitRanges, nSample)
        /\ pc = "transformed" => RangesCover(transRanges, nSample)
        /\ RangesContiguous(Plan(nSample, args.batch_size, args.n_component))
        /\ RangesCover(Plan(nSample, args.batch_size, args.n_component), nSample)

C1_Witness ==
    /\ pc = "transformed"
    /\ Len(fitRanges) >= 2
    /\ Len(transRanges) >= 2
    /\ RangeLen(transRanges[Len(transRanges)]) > args.batch_size

\* C2: with batch_size >= 1 and n_component >= 1 every range walked has at
\* least n_component entries (the sole range of a manifest smaller than
\* n_component excepted), so every batch handed to partial_fit has at least
\* n_component rows.
C2_EveryRangeViable ==
    ValidConfig =>
        /\ MinLength(fitRanges, nSample, args.n_component)
        /\ MinLength(transRanges, nSample, args.n_component)
        /\ \A i \in 1..Len(updates) :
             Len(updates[i]) >= args.n_component \/ nSample < args.n_component

\* C3: the final range is never shorter than n_component unless it is the
\* sole range of a manifest smaller than n_component: a candidate range
\* after which fewer than n_component samples would remain is extended to
\* nSample and is the last one; 105 samples in batches of 50 with 10
\* components give [0,50), [50,105).
C3_FinalRangeViable ==
    /\ ValidConfig =>
        /\ MergedTail(fitRanges, nSample, args.batch_size, args.n_component)
        /\ MergedTail(transRanges, nSample, args.batch_size, args.n_component)
        /\ MergedTail(Plan(nSample, args.batch_size, args.n_component),
                      nSample, args.batch_size, args.n_component)
    /\ Plan(105, 50, 10) = <<<<0, 50>>, <<50, 105>>>>

C3_Witness ==
    /\ pc = "fit_done"
    /\ Len(fitRanges) >= 2
    /\ RangeLen(fitRanges[Len(fitRanges)]) > args.batch_size
    /\ nSample - (fitRanges[Len(fitRanges)][1] + args.batch_size) > 0

\* C4: when the transform pass has returned, the projection matrix has
\* nSample rows and row i is the projection of the raster of manifest entry
\* i; the written file pairs timestamp i with that row.
C4_ProjectionAligned ==
    /\ pc \in {"transformed", "done"} =>
         /\ Len(proj_full.rows) = nSample
         /\ \A i \in 1..Len(proj_full.rows) : proj_full.rows[i] = i - 1
         /\ proj_full.rows = Flatten(projects)
    /\ written.set =>
         /\ Len(written.rows) = nSample
         /\ \A i \in 1..Len(written.rows) :
              written.rows[i] = [timestamp |-> i - 1, proj |-> i - 1]

C4_Witness ==
    /\ pc = "done"
    /\ written.set
    /\ Len(transRanges) >= 2
    /\ Len(written.rows) = nSample

\* C5: the transform pass walks the ranges of the fit pass, range for
\* range, and both are the plan that nSample, batch_size and n_component
\* determine.
C5_SamePlan ==
    /\ IsPrefix(transRanges, fitRanges)
    /\ pc \in {"transformed", "done"} => transRanges = fitRanges
    /\ pc = "transform_loop" => n_component = args.n_component
    /\ (ValidConfig /\ pc = "fit_done") =>
         fitRanges = Plan(nSample, args.batch_size, args.n_component)
    /\ (ValidConfig /\ pc = "transformed") =>
         transRanges = Plan(nSample, args.batch_size, args.n_component)

C5_Witness ==
    /\ pc = "transformed"
    /\ Len(transRanges) >= 3
    /\ transRanges = fitRanges
    /\ RangeLen(transRanges[3]) > args.batch_size

\* C6: a fit called with a non-zero seed on a non-empty manifest does not
\* fail in the shuffle, and when it returns every manifest entry was handed
\* to partial_fit exactly once.
C6_ShuffleSupported ==
    (args.random_seed # 0 /\ nSample > 0 /\ ValidConfig) =>
        /\ error # "UnboundLocalError"
        /\ pc = "fit_done" =>
             /\ Len(Flatten(updates)) = nSample
             /\ \A k \in 0..(nSample - 1) :
                  \E i \in 1..nSample : Flatten(updates)[i] = k

\* C7: a run with n_component <= 0 or batch_size <= 0 makes no
\* read_multiple_era5 call.
C7_RejectedBeforeIO ==
    InvalidConfig => readLog = <<>>

\* C8: a failure ends the run at once: after it no batch is read, nothing
\* is handed to partial_fit or transform, and nothing is written; the
\* projection file is written only by a run without failure and then holds
\* nSample rows.
C8_FailureInv ==
    /\ error # "none" => (pc = "failed" /\ ~written.set)
    /\ pc = "failed" => error # "none"
    /\ written.set =>
         /\ pc = "done"
         /\ Len(written.rows) = nSample
         /\ Len(transRanges) = Len(projects)
         /\ RangesCover(transRanges, nSample)

C8_FailureStep ==
    error # "none" =>
        /\ readLog' = readLog
        /\ updates' = updates
        /\ projects' = projects
        /\ written' = written
        /\ pc' = "failed"

C8_NoPartialSuccess == [](C8_FailureInv) /\ [][C8_FailureStep]_vars

C8_Witness ==
    /\ pc = "failed"
    /\ error = "OSError"
    /\ Len(projects) >= 1
    /\ Len(transRanges) = Len(projects) + 1
    /\ ~written.set

\* C9: on an empty manifest both passes walk no range, read nothing and
\* call neither partial_fit nor transform, and the run does not fail.
C9_EmptyManifestCompletes ==
    (nSample = 0 /\ args.random_seed = 0 /\ ValidConfig) =>
        /\ fitRanges = <<>>
        /\ transRanges = <<>>
        /\ readLog = <<>>
        /\ updates = <<>>
        /\ projects = <<>>
        /\ pc # "failed"

\* C10: with batch_size >= 1 and n_component >= 1 every iteration strictly
\* increases batch_start, batch_start never exceeds nSample, a loop that
\* exits does so with batch_start = nSample after at most
\* ceil(nSample / batch_size) iterations, and the run comes to an end.
C10_LoopInv ==
    ValidConfig =>
        /\ batch_start <= nSample
        /\ batch_count <= CeilDiv(nSample, args.batch_size)
        /\ pc \in {"fit_done", "transformed"} => batch_start = nSample

C10_LoopStep ==
    (ValidConfig /\ batch_count' = batch_count + 1) => batch_start' > batch_start

C10_LoopsTerminate ==
    /\ [](C10_LoopInv)
    /\ [][C10_LoopStep]_vars
    /\ (ValidConfig ~> Terminated)

C10_Witness ==
    /\ pc = "transformed"
    /\ batch_start = nSample
    /\ batch_count >= 2
    /\ batch_count = CeilDiv(nSample, args.batch_size)

=============================================================================
